---- MODULE Spec2Model ----
(***************************************************************************)
(* NoPass: the vault session (GLOBAL_VAULT and the MainWindow handlers),   *)
(* vault creation, the vault file codec and the symbolic crypto it uses.   *)
(*                                                                         *)
(* Byte strings are sequences of small integers.  The KDF and the AEAD     *)
(* are symbolic: a key is the pair (passphrase, salt) it was derived from, *)
(* a ciphertext names the key bytes, the nonce and the plaintext it was    *)
(* made of, and decrypts under exactly that key.                           *)
(***************************************************************************)
EXTENDS Integers, Sequences, FiniteSets, TLC

\* ---- bounds of the model ----
MaxNonce == 3
MaxEdit == 1
MaxPath == 1
MaxPw == 2
MaxSalt == 1
MaxAesNonce == 1
MaxPlain == 2
MaxCap == 3
MaxTasks == 1

\* ---- program constants ----
SaltLen == 16
NonceLen == 12
TagLen == 16

Paths == 1..MaxPath
NoPath == 0
\* a second file the picker can name; only SpecPick selects it
OtherPath == MaxPath + 1
AllPaths == Paths \cup {OtherPath}
Passwords == 1..MaxPw
Salts == 1..MaxSalt
AesNonces == 1..MaxAesNonce
ItemIds == (-1)..(MaxNonce - 1)
EditIds == 1..MaxEdit
\* the plaintexts of the direct calls: the empty one and some longer ones
Plaintexts == {[i \in 1..k |-> 6 + i] : k \in 0..MaxPlain}
\* what the random generator can give for a salt
RngSalts == 0..MaxSalt

\* ---- models/vault.rs, utils/crypto.rs: data ----

\* Option<ArgonKey>::None
NoKey == [some |-> FALSE, bytes |-> <<0, 0>>, salt |-> 0]

\* "New Item" as bytes
NewItemName == <<78, 101, 119, 32, 73, 116, 101, 109>>

\* ZeroByte::with_capacity(0)
EmptyText == <<>>

BlankItem(id) ==
    [id |-> id, name |-> NewItemName, username |-> EmptyText,
     password |-> EmptyText, url |-> EmptyText, notes |-> EmptyText]

\* Vault::new(), as Some(vault) of the Option the global holds
VaultNewBadNonce ==
    [some |-> TRUE, nonce |-> 0, items |-> <<BlankItem(0)>>, key |-> NoKey]

VaultNew ==
    [some |-> TRUE, nonce |-> 1, items |-> <<BlankItem(0)>>, key |-> NoKey]

\* GLOBAL_VAULT holding None
NoVault == [some |-> FALSE, nonce |-> 0, items |-> <<>>, key |-> NoKey]

\* the VaultItem the UI passes to save_selected_item, k-th edit of item id
EditInput(id, k) ==
    [id |-> id, name |-> <<64 + k>>, username |-> <<96 + k, 1>>,
     password |-> <<48 + k, 2, 2>>, url |-> <<32 + k>>, notes |-> <<16 + k, 5>>]

ItemIdsOf(items) == {items[i].id : i \in DOMAIN items}

\* ---- utils/zerobyte.rs ----

\* from_utf8 succeeds on the bytes below 128; a byte from 128 up is not
\* valid on its own and from_utf8_lossy replaces it by U+FFFD (EF BF BD)
RECURSIVE ToSharedStringSecure(_)
ToSharedStringSecure(t) ==
    IF \A i \in DOMAIN t : t[i] < 128 THEN t
    ELSE (IF Head(t) >= 128 THEN <<239, 191, 189>> ELSE <<Head(t)>>)
         \o ToSharedStringSecure(Tail(t))

\* from_shared_string: the bytes of the string
FromSharedString(s) == s

\* Vec<u8>::zeroize as seen in memory: every byte of the buffer becomes 0
ZeroizedBytes(t) == [i \in 1..Len(t) |-> 0]

\* A ZeroByte with the memory behind it: store is the allocation of data
\* (capacity bytes, the spare ones with whatever they hold), len is
\* data.len(); the bytes of the ZeroByte are the first len of store.
ZbData(z) == SubSeq(z.store, 1, z.len)

NoZeroByte == [store |-> <<>>, len |-> 0]

\* store with the bytes from..to set to b
FillRange(store, from, to, b) ==
    [i \in DOMAIN store |-> IF from <= i /\ i <= to THEN b ELSE store[i]]

\* truncate: zeroize data[len..] if len < data.len(), then Vec::truncate
ZbTruncateNoZero(z, len) ==
    IF len < z.len THEN [z EXCEPT !.len = len] ELSE z

ZbTruncate(z, len) ==
    IF len < z.len
    THEN [store |-> FillRange(z.store, len + 1, z.len, 0), len |-> len]
    ELSE z

\* clear: Vec::zeroize (every element and the spare capacity), Vec::clear
ZbClear(z) == [store |-> [i \in DOMAIN z.store |-> 0], len |-> 0]

\* resize: zeroize data[new_len..] if new_len < data.len(), then Vec::resize,
\* which truncates, or fills up to new_len with value, in a new allocation
\* when the capacity does not suffice
ZbResize(z, new_len, value) ==
    IF new_len < z.len
    THEN [store |-> FillRange(z.store, new_len + 1, z.len, 0), len |-> new_len]
    ELSE IF new_len <= Len(z.store)
    THEN [store |-> FillRange(z.store, z.len + 1, new_len, value),
          len |-> new_len]
    ELSE [store |-> ZbData(z) \o [i \in 1..(new_len - z.len) |-> value],
          len |-> new_len]

\* ---- utils/crypto.rs ----

\* argon2.hash_password_into(password, salt): depends on both, on nothing else
KDF(pw, salt) == <<pw, salt>>

\* derive_argon_key; salt is the supplied one or the random one
DeriveArgonKey(pw, salt) == [some |-> TRUE, bytes |-> KDF(pw, salt), salt |-> salt]

\* derive_argon_key, lines 32-37: the salt is the supplied one if there is
\* one, else 16 bytes rng from the random generator
SaltBytesRandom(salt_opt, rng) == rng

SaltBytes(salt_opt, rng) == IF salt_opt.some THEN salt_opt.v ELSE rng

\* derive_argon_key(bytes, salt: Option<[u8; 16]>)
DeriveArgonKeyOpt(pw, salt_opt, rng) == DeriveArgonKey(pw, SaltBytes(salt_opt, rng))

SomeSalt(salt) == [some |-> TRUE, v |-> salt]

\* aes_gcm_encrypt: nonce || ciphertext+tag; len counts the bytes of the blob
AesGcmEncryptNoNonce(pt, key, nonce) ==
    [nonce |-> 0, key |-> key.bytes, pt |-> pt, len |-> Len(pt) + TagLen]

AesGcmEncrypt(pt, key, nonce) ==
    [nonce |-> nonce, key |-> key.bytes, pt |-> pt,
     len |-> NonceLen + Len(pt) + TagLen]

\* a blob of which fewer bytes than a whole encryption are left
CutBlob(n) == [nonce |-> 0, key |-> <<0, 0>>, pt |-> <<>>, len |-> n]

\* aes_gcm_decrypt: secure_split_at(12) panics on a blob shorter than 12
\* bytes; the AEAD accepts the complete ciphertext under the key it was made
\* with
AesGcmDecrypt(blob, key) ==
    IF NonceLen > blob.len THEN [ret |-> "panic", pt |-> <<>>]
    ELSE IF /\ blob.len = NonceLen + Len(blob.pt) + TagLen
            /\ blob.key = key.bytes
         THEN [ret |-> "ok", pt |-> blob.pt]
         ELSE [ret |-> "err", pt |-> <<>>]

\* ---- bincode: encode_to_vec / decode_from_slice of a Vault ----

EncText(t) == <<Len(t)>> \o t

EncItem(it) ==
    <<it.id>> \o EncText(it.name) \o EncText(it.username)
      \o EncText(it.password) \o EncText(it.url) \o EncText(it.notes)

RECURSIVE EncItems(_)
EncItems(s) == IF s = <<>> THEN <<>> ELSE EncItem(Head(s)) \o EncItems(Tail(s))

EncKey(k) == IF k.some THEN <<1, k.bytes[1], k.bytes[2], k.salt>> ELSE <<0>>

Encode(v) == <<v.nonce, Len(v.items)>> \o EncItems(v.items) \o EncKey(v.key)

\* The decoder walks the bytes by index; 0 stands for "the bytes ran out or
\* were not of the shape read".

\* the index after the length-prefixed byte string that starts at i
TextEnd(b, i) ==
    IF i < 1 \/ i > Len(b) THEN 0
    ELSE IF b[i] < 0 \/ i + b[i] > Len(b) THEN 0
    ELSE i + b[i] + 1

\* the byte string that starts at i
TextAt(b, i) == SubSeq(b, i + 1, i + b[i])

\* the index after n byte strings that start at i
RECURSIVE TextsEnd(_, _, _)
TextsEnd(b, i, n) == IF n = 0 \/ i = 0 THEN i ELSE TextsEnd(b, TextEnd(b, i), n - 1)

\* the index after the Item that starts at i: an id and five byte strings
ItemEnd(b, i) == IF i < 1 \/ i > Len(b) THEN 0 ELSE TextsEnd(b, i + 1, 5)

\* the Item that starts at i
ItemAt(b, i) ==
    [id |-> b[i],
     name |-> TextAt(b, TextsEnd(b, i + 1, 0)),
     username |-> TextAt(b, TextsEnd(b, i + 1, 1)),
     password |-> TextAt(b, TextsEnd(b, i + 1, 2)),
     url |-> TextAt(b, TextsEnd(b, i + 1, 3)),
     notes |-> TextAt(b, TextsEnd(b, i + 1, 4))]

\* the index after n Items that start at i
RECURSIVE ItemsEnd(_, _, _)
ItemsEnd(b, i, n) == IF n = 0 \/ i = 0 THEN i ELSE ItemsEnd(b, ItemEnd(b, i), n - 1)

\* Option<ArgonKey> at i: tag 0, or tag 1 and the key
KeyOk(b, i) ==
    /\ i >= 1 /\ i <= Len(b)
    /\ b[i] = 0 \/ (b[i] = 1 /\ i + 3 <= Len(b))

KeyAt(b, i) ==
    IF b[i] = 0 THEN NoKey
    ELSE [some |-> TRUE, bytes |-> <<b[i + 1], b[i + 2]>>, salt |-> b[i + 3]]

\* decode_from_slice: nonce, the number of items, the items, the key;
\* trailing bytes are allowed (_bytes_read is ignored)
DecodeOk(b) ==
    /\ Len(b) >= 2
    /\ b[2] >= 0
    /\ ItemsEnd(b, 3, b[2]) # 0
    /\ KeyOk(b, ItemsEnd(b, 3, b[2]))

Decode(b) ==
    IF DecodeOk(b)
    THEN [ok |-> TRUE,
          vault |-> [some |-> TRUE, nonce |-> b[1],
                     items |-> [k \in 1..b[2] |-> ItemAt(b, ItemsEnd(b, 3, k - 1))],
                     key |-> KeyAt(b, ItemsEnd(b, 3, b[2]))]]
    ELSE [ok |-> FALSE, vault |-> NoVault]

\* ---- utils/file.rs ----

\* a path at which there is no file
NoFile == [exists |-> FALSE, len |-> 0, salt |-> 0, blob |-> CutBlob(0)]

\* the bytes of the file after the 16 bytes of salt (read_to_end)
FileRest(f) == [f.blob EXCEPT !.len = f.len - SaltLen]

\* derive_file_key: open, read_exact 16 bytes of salt, derive with that salt
DeriveFileKeyNoCheck(f, pw) ==
    [ok |-> TRUE, key |-> DeriveArgonKey(pw, f.salt)]

DeriveFileKeyZeroSalt(f, pw) ==
    IF ~f.exists \/ f.len < SaltLen THEN [ok |-> FALSE, key |-> NoKey]
    ELSE [ok |-> TRUE, key |-> DeriveArgonKey(pw, 0)]

DeriveFileKey(f, pw) ==
    IF ~f.exists \/ f.len < SaltLen THEN [ok |-> FALSE, key |-> NoKey]
    ELSE [ok |-> TRUE, key |-> DeriveArgonKey(pw, f.salt)]

\* read_encrypted_file: open, read_exact the salt, read the rest, decrypt
ReadEncryptedFileNoSkip(f, key) ==
    IF ~f.exists \/ f.len < SaltLen THEN [ret |-> "err", pt |-> <<>>]
    ELSE AesGcmDecrypt([f.blob EXCEPT !.len = f.len], key)

ReadEncryptedFile(f, key) ==
    IF ~f.exists \/ f.len < SaltLen THEN [ret |-> "err", pt |-> <<>>]
    ELSE AesGcmDecrypt(FileRest(f), key)

\* what File::create and write_all can do: succeed, fail on create (the file
\* is left as it was), or fail in write_all after n bytes of the truncated file
CutLens == {SaltLen - 1, SaltLen + NonceLen - 1, SaltLen + NonceLen}

WriteOutcomes ==
    {[kind |-> "ok", n |-> 0], [kind |-> "create_fail", n |-> 0]}
      \cup {[kind |-> "write_fail", n |-> c] : c \in CutLens}

\* the file that holds the first n bytes of salt || blob
PartialFile(key, n) ==
    [exists |-> TRUE, len |-> n,
     salt |-> IF n >= SaltLen THEN key.salt ELSE 0,
     blob |-> CutBlob(IF n >= SaltLen THEN n - SaltLen ELSE 0)]

\* write_encrypted_file(bytes, path, key) on the file f now at path
WriteEncryptedFileNoSalt(f, pt, key, nonce, outcome) ==
    LET blob == AesGcmEncrypt(pt, key, nonce)
    IN CASE outcome.kind = "ok" ->
              [ret |-> "ok",
               file |-> [exists |-> TRUE, len |-> SaltLen + blob.len,
                         salt |-> 0, blob |-> blob]]
         [] outcome.kind = "create_fail" -> [ret |-> "err", file |-> f]
         [] OTHER -> [ret |-> "err", file |-> PartialFile(key, outcome.n)]

WriteEncryptedFile(f, pt, key, nonce, outcome) ==
    LET blob == AesGcmEncrypt(pt, key, nonce)
    IN CASE outcome.kind = "ok" ->
              [ret |-> "ok",
               file |-> [exists |-> TRUE, len |-> SaltLen + blob.len,
                         salt |-> key.salt, blob |-> blob]]
         [] outcome.kind = "create_fail" -> [ret |-> "err", file |-> f]
         [] OTHER -> [ret |-> "err", file |-> PartialFile(key, outcome.n)]

\* ---- handlers/main_window.rs: the steps of the handlers ----

\* items.iter().position(|item| item.id == id), 0 for None
FirstPos(items, id) ==
    IF \E i \in DOMAIN items : items[i].id = id
    THEN CHOOSE i \in DOMAIN items :
            /\ items[i].id = id
            /\ \A j \in 1..(i - 1) : items[j].id # id
    ELSE 0

\* delete_vault_item, lines 121-125
RemoveItemAndRest(v, id) ==
    LET pos == FirstPos(v.items, id)
    IN IF ~v.some \/ pos = 0 THEN v
       ELSE [v EXCEPT !.items = SubSeq(v.items, 1, pos - 1)]

RemoveItem(v, id) ==
    LET pos == FirstPos(v.items, id)
    IN IF ~v.some \/ pos = 0 THEN v
       ELSE [v EXCEPT !.items = SubSeq(v.items, 1, pos - 1)
                                  \o SubSeq(v.items, pos + 1, Len(v.items))]

\* add_vault_item, lines 144-158
PushItemNoIncrement(v) ==
    IF ~v.some THEN v
    ELSE [v EXCEPT !.items = Append(v.items, BlankItem(v.nonce))]

PushItem(v) ==
    IF ~v.some THEN v
    ELSE [v EXCEPT !.items = Append(v.items, BlankItem(v.nonce)),
                   !.nonce = v.nonce + 1]

\* save_selected_item, lines 209-217
ReplaceFieldsPartial(v, new_item) ==
    LET pos == FirstPos(v.items, new_item.id)
    IN IF ~v.some \/ pos = 0 THEN v
       ELSE [v EXCEPT !.items[pos].name = FromSharedString(new_item.name),
                      !.items[pos].username = FromSharedString(new_item.username)]

ReplaceFields(v, new_item) ==
    LET pos == FirstPos(v.items, new_item.id)
    IN IF ~v.some \/ pos = 0 THEN v
       ELSE [v EXCEPT !.items[pos] =
                [id |-> v.items[pos].id,
                 name |-> FromSharedString(new_item.name),
                 username |-> FromSharedString(new_item.username),
                 password |-> FromSharedString(new_item.password),
                 url |-> FromSharedString(new_item.url),
                 notes |-> FromSharedString(new_item.notes)]]

\* save_vault_state, lines 182-183: the copy that is encoded
VaultWithKey(v) == v

VaultWithoutKey(v) == [v EXCEPT !.key = NoKey]

\* unlock_vault, lines 302-303
AttachNoKey(v, key) == v

AttachKey(v, key) == [v EXCEPT !.key = key]

\* update_vault_items: the list the window shows
UpdateVaultItems(v, shown) ==
    IF v.some
    THEN [i \in DOMAIN v.items |->
             [id |-> v.items[i].id, name |-> ToSharedStringSecure(v.items[i].name)]]
    ELSE shown

\* Vault::zeroize (derived): what the memory of the vault holds afterwards
ZeroizeItem(it) ==
    [id |-> 0, name |-> ZeroizedBytes(it.name), username |-> ZeroizedBytes(it.username),
     password |-> ZeroizedBytes(it.password), url |-> ZeroizedBytes(it.url),
     notes |-> ZeroizedBytes(it.notes)]

ZeroizeVault(v) ==
    [some |-> FALSE, nonce |-> 0,
     items |-> [i \in DOMAIN v.items |-> ZeroizeItem(v.items[i])],
     key |-> NoKey]

\* vault.items.len() etc. are unbounded in the program; the model stops
\* adding when the id counter reaches MaxNonce
CanAdd(v) == v.some => v.nonce < MaxNonce

\* what the operating system does to the two reads of a file that
\* unlock_vault makes: both go through, or File::open / read fails in
\* derive_file_key (file.rs:14-16), or in read_encrypted_file (file.rs:40-47)
IoOutcomes == {"ok", "fail_derive", "fail_read"}

\* unlock_vault, lines 286-320: the outcome, the vault it would store and
\* the kind of the failure.  ret is what unlock_vault tells: the dialog
\* "Failed to derive key: .." (err_derive), "Failed to open vault file"
\* (err_read), "Decode Error" (err_decode); the function itself returns ().
UnlockOutcome(f, pw, io) ==
    LET dk == DeriveFileKey(f, pw)
        rd == ReadEncryptedFile(f, dk.key)
        dec == Decode(rd.pt)
    IN IF io = "fail_derive" \/ ~f.exists
       THEN [ret |-> "err_derive", vault |-> NoVault, class |-> "io"]
       ELSE IF ~dk.ok
       THEN [ret |-> "err_derive", vault |-> NoVault, class |-> "format"]
       ELSE IF io = "fail_read"
       THEN [ret |-> "err_read", vault |-> NoVault, class |-> "io"]
       ELSE IF rd.ret = "panic"
       THEN [ret |-> "panic", vault |-> NoVault, class |-> "panic"]
       ELSE IF rd.ret = "err"
       THEN [ret |-> "err_read", vault |-> NoVault, class |-> "auth"]
       ELSE IF ~dec.ok
       THEN [ret |-> "err_decode", vault |-> NoVault, class |-> "decode"]
       ELSE [ret |-> "ok", vault |-> AttachKey(dec.vault, dk.key),
             class |-> "none"]

\* unlock_vault, line 306: set_vault_open(true) sits inside the Ok arm
VaultOpenAlways(ret, open) == TRUE

VaultOpenAfterUnlock(ret, open) == IF ret = "ok" THEN TRUE ELSE open

\* ---- state ----
\* Of the window's properties the model keeps vault-location, vault-open and
\* vault-items; selected-vault-item, which load_selected_item fills, is
\* presentation only and is left out, and with it the on_load_selected_item
\* callback, which changes nothing else.

VARIABLES
    vault,                 \* GLOBAL_VAULT: Option<Vault>
    files,                 \* the file system: path -> file
    vault_location,        \* MainWindow property vault-location
    vault_open,            \* MainWindow property vault-open
    vault_items,           \* MainWindow property vault-items
    pc,                    \* "running", "exited" or "panicked"
    residue,               \* what the memory of the vault holds once the process ends
    op,                    \* the vault operation that ran last and its result
    handed,                \* the plaintext that operation handed to write_encrypted_file
    seen,                  \* ids the held vault had when it was loaded or assigned since
    poisoned,              \* the Mutex of GLOBAL_VAULT is poisoned
    origin,                \* the path the held vault was unlocked from
    result,                \* what the last direct call of a utils function returned
    zb,                    \* a ZeroByte under test: its backing store and its length
    thread,                \* the event loop thread: the callback it runs and where it is
    lock,                  \* who holds the mutex of GLOBAL_VAULT: "free" or "ui"
    tasks                  \* the writes of create_vault_file on the blocking pool

vars == <<vault, files, vault_location, vault_open, vault_items, pc, residue,
          op, handed, seen, poisoned, origin, result, zb, thread, lock, tasks>>

NoOp == [name |-> "none", ret |-> "none", write |-> "none"]

NoResult == [ret |-> "none", key |-> NoKey, bytes |-> <<>>]

\* the event loop thread between two callbacks
NoThread == [op |-> "none", i |-> 0, at |-> "idle", a |-> 0, b |-> 0,
             u |-> NoVault, ret |-> "none", write |-> "none"]

\* a file some other program left: a well-formed encryption whose plaintext
\* is no vault
ForeignFile ==
    LET blob == AesGcmEncrypt(<<>>, DeriveArgonKey(1, 1), 1)
    IN [exists |-> TRUE, len |-> SaltLen + blob.len, salt |-> 1, blob |-> blob]

FileAt(p) == IF p \in AllPaths THEN files[p] ELSE NoFile

Init ==
    /\ vault = NoVault
    /\ files \in {f \in [AllPaths -> {NoFile, ForeignFile}] : f[OtherPath] = ForeignFile}
    /\ vault_location = NoPath
    /\ vault_open = FALSE
    /\ vault_items = <<>>
    /\ pc = "running"
    /\ residue = NoVault
    /\ op = NoOp
    /\ handed = <<>>
    /\ seen = {}
    /\ poisoned = FALSE
    /\ origin = NoPath
    /\ result = NoResult
    /\ zb = NoZeroByte
    /\ thread = NoThread
    /\ lock = "free"
    /\ tasks = {}

\* ---- save_vault_state ----

\* save_vault_state(window) with v held: encode the copy without the key and
\* write it under the held key to the window's vault-location.  With no
\* vault held nothing is written.  Gives the file system, the plaintext
\* handed to write_encrypted_file and whether the write happened and worked.
SaveVaultStateNoSalt(v, outcome, nonce) ==
    LET pt == Encode(VaultWithoutKey(v))
        o == IF vault_location \in AllPaths THEN outcome
             ELSE [kind |-> "create_fail", n |-> 0]
        w == WriteEncryptedFileNoSalt(FileAt(vault_location), pt, v.key, nonce, o)
    IN IF ~v.some
       THEN [files |-> files, handed |-> <<>>, write |-> "none"]
       ELSE [files |-> IF vault_location \in AllPaths
                       THEN [files EXCEPT ![vault_location] = w.file]
                       ELSE files,
             handed |-> pt,
             write |-> IF w.ret = "ok" THEN "ok" ELSE "fail"]

SaveVaultStateStale(v, outcome, nonce) ==
    LET pt == Encode(VaultWithoutKey(vault))
        o == IF vault_location \in AllPaths THEN outcome
             ELSE [kind |-> "create_fail", n |-> 0]
        w == WriteEncryptedFile(FileAt(vault_location), pt, v.key, nonce, o)
    IN IF ~v.some
       THEN [files |-> files, handed |-> <<>>, write |-> "none"]
       ELSE [files |-> IF vault_location \in AllPaths
                       THEN [files EXCEPT ![vault_location] = w.file]
                       ELSE files,
             handed |-> pt,
             write |-> IF w.ret = "ok" THEN "ok" ELSE "fail"]

SaveVaultState(v, outcome, nonce) ==
    LET pt == Encode(VaultWithoutKey(v))
        o == IF vault_location \in AllPaths THEN outcome
             ELSE [kind |-> "create_fail", n |-> 0]
        w == WriteEncryptedFile(FileAt(vault_location), pt, v.key, nonce, o)
    IN IF ~v.some
       THEN [files |-> files, handed |-> <<>>, write |-> "none"]
       ELSE [files |-> IF vault_location \in AllPaths
                       THEN [files EXCEPT ![vault_location] = w.file]
                       ELSE files,
             handed |-> pt,
             write |-> IF w.ret = "ok" THEN "ok" ELSE "fail"]

\* the outcomes of the file system are told apart only where a file is
\* written: a vault is held and vault-location names a path; elsewhere one
\* stands for all
Writes(outcome) ==
    (vault.some /\ vault_location \in AllPaths) \/ outcome.kind = "create_fail"

\* ---- the callbacks of MainWindow ----

\* on_add_vault_item -> add_vault_item: push a blank item with id = nonce,
\* refresh the list, save; the result of save_vault_state is dropped and
\* Ok(()) is returned
AddVaultItem(outcome, nonce) ==
    /\ pc = "running"
    /\ Writes(outcome)
    /\ CanAdd(vault)
    /\ IF poisoned
       THEN /\ op' = [name |-> "add_vault_item", ret |-> "err", write |-> "none"]
            /\ handed' = <<>>
            /\ UNCHANGED <<vault, vault_items, files, seen>>
       ELSE \E v \in {PushItem(vault)} :
            \E sv \in {SaveVaultState(v, outcome, nonce)} :
               /\ vault' = v
               /\ vault_items' = UpdateVaultItems(v, vault_items)
               /\ files' = sv.files
               /\ handed' = sv.handed
               /\ seen' = IF vault.some THEN seen \cup {vault.nonce} ELSE seen
               /\ op' = [name |-> "add_vault_item", ret |-> "ok",
                         write |-> sv.write]
    /\ UNCHANGED <<vault_location, vault_open, pc, residue, poisoned, origin,
                   result,
                   zb, thread, lock, tasks>>

\* on_delete_vault_item: the handler runs for item_id >= 0 only;
\* delete_vault_item removes the first item with the id, refreshes, saves and
\* returns Ok(())
DeleteVaultItem(item_id, outcome, nonce) ==
    /\ pc = "running"
    /\ Writes(outcome)
    /\ item_id >= 0
    /\ IF poisoned
       THEN /\ op' = [name |-> "delete_vault_item", ret |-> "err",
                      write |-> "none"]
            /\ handed' = <<>>
            /\ UNCHANGED <<vault, vault_items, files>>
       ELSE \E v \in {RemoveItem(vault, item_id)} :
            \E sv \in {SaveVaultState(v, outcome, nonce)} :
               /\ vault' = v
               /\ vault_items' = UpdateVaultItems(v, vault_items)
               /\ files' = sv.files
               /\ handed' = sv.handed
               /\ op' = [name |-> "delete_vault_item", ret |-> "ok",
                         write |-> sv.write]
    /\ UNCHANGED <<vault_location, vault_open, pc, residue, seen, poisoned,
                   origin, result,
                   zb, thread, lock, tasks>>

\* on_save_selected_item -> save_selected_item: replace the five text fields
\* of the item with the id, save, reload the selected item, refresh the list.
\* The body ends without a value: nothing is returned to the caller.
SaveSelectedItem(item_id, k, outcome, nonce) ==
    /\ pc = "running"
    /\ Writes(outcome)
    /\ IF poisoned
       THEN /\ pc' = "panicked"
            /\ residue' = vault
            /\ op' = [name |-> "save_selected_item", ret |-> "panic_lock",
                      write |-> "none"]
            /\ handed' = <<>>
            /\ UNCHANGED <<vault, vault_items, files>>
       ELSE /\ \E v \in {ReplaceFields(vault, EditInput(item_id, k))} :
               \E sv \in {SaveVaultState(v, outcome, nonce)} :
                  /\ vault' = v
                  /\ files' = sv.files
                  /\ handed' = sv.handed
                  /\ vault_items' = UpdateVaultItems(v, vault_items)
                  /\ op' = [name |-> "save_selected_item", ret |-> "unit",
                            write |-> sv.write]
            /\ UNCHANGED <<pc, residue>>
    /\ UNCHANGED <<vault_location, vault_open, seen, poisoned, origin, result,
                   zb, thread, lock, tasks>>

\* on_open_unlock_vault -> open_unlock_vault: the picker returned a path
OpenUnlockVault(path) ==
    /\ pc = "running"
    /\ vault_location' = path
    /\ UNCHANGED <<vault, files, vault_open, vault_items, pc, residue, op,
                   handed, seen, poisoned, origin, result,
                   zb, thread, lock, tasks>>

\* unlock_vault with the lock poisoned: the store at lines 301-307 is skipped
\* without a word, and update_vault_items, which the Ok arm and the read
\* error arm fall through to at line 322, panics in lock().unwrap()
UnlockRet(ret, lock_poisoned) ==
    IF lock_poisoned /\ ret \in {"ok", "err_read"} THEN "panic_lock" ELSE ret

\* on_unlock_vault -> unlock_vault(location, password)
UnlockVault(location, pw, io) ==
    /\ pc = "running"
    /\ \E u \in {UnlockOutcome(FileAt(location), pw, io)} :
       \E r \in {UnlockRet(u.ret, poisoned)} :
       \E v \in {IF r = "ok" THEN u.vault ELSE vault} :
          /\ vault' = v
          /\ vault_open' = VaultOpenAfterUnlock(r, vault_open)
          /\ vault_items' = IF r \in {"ok", "err_read"}
                            THEN UpdateVaultItems(v, vault_items)
                            ELSE vault_items
          /\ pc' = IF r \in {"panic", "panic_lock"} THEN "panicked" ELSE pc
          /\ residue' = IF r \in {"panic", "panic_lock"} THEN vault ELSE residue
          /\ seen' = IF r = "ok" THEN ItemIdsOf(v.items) ELSE seen
          /\ origin' = IF r = "ok" THEN location ELSE origin
          /\ op' = [name |-> "unlock_vault", ret |-> r, write |-> "none"]
    /\ handed' = <<>>
    /\ UNCHANGED <<files, vault_location, poisoned, result,
                   zb, thread, lock, tasks>>

\* ---- handlers/create_vault_window.rs ----

\* on_create_database_done with a path from the save dialog ->
\* create_vault_file: Vault::new, encode, derive a key with a random salt,
\* write_encrypted_file on the blocking pool, tell the result in a dialog.
\* Up to the write the task reads nothing but its arguments, so the whole of
\* it is taken at the moment of the write.  GLOBAL_VAULT is not touched.
CreateVaultFile(path, pw, salt, outcome, nonce) ==
    /\ pc = "running"
    /\ \E key \in {DeriveArgonKey(pw, salt)} : \E encoded \in {Encode(VaultNew)} :
       \E w \in {WriteEncryptedFile(files[path], encoded, key, nonce, outcome)} :
          /\ files' = [files EXCEPT ![path] = w.file]
          /\ handed' = encoded
          /\ op' = [name |-> "create_vault_file", ret |-> w.ret,
                    write |-> IF w.ret = "ok" THEN "ok" ELSE "fail"]
    /\ UNCHANGED <<vault, vault_location, vault_open, vault_items, pc, residue,
                   seen, poisoned, origin, result,
                   zb, thread, lock, tasks>>

\* ---- exit ----

\* cleanup: take the vault out of GLOBAL_VAULT and zeroize it
Cleanup(v) ==
    IF v.some THEN [vault |-> NoVault, residue |-> ZeroizeVault(v)]
    ELSE [vault |-> v, residue |-> residue]

\* the close request of the main window: cleanup(), std::process::exit(0).
\* With the lock poisoned cleanup does nothing (a message on stderr in debug
\* builds) and the process exits all the same.
CloseRequested ==
    /\ pc = "running"
    /\ \E c \in {IF poisoned THEN [vault |-> vault, residue |-> vault]
                  ELSE Cleanup(vault)} :
          /\ vault' = c.vault
          /\ residue' = c.residue
    /\ pc' = "exited"
    /\ op' = [name |-> "close_requested", ret |-> "unit", write |-> "none"]
    /\ handed' = <<>>
    /\ UNCHANGED <<files, vault_location, vault_open, vault_items, seen,
                   poisoned, origin, result,
                   zb, thread, lock, tasks>>

\* window.run() returns in WindowHandler::run, run returns to main, main
\* returns: cleanup is not called on this path
EventLoopReturns ==
    /\ pc = "running"
    /\ pc' = "exited"
    /\ residue' = vault
    /\ op' = [name |-> "run_returns", ret |-> "unit", write |-> "none"]
    /\ handed' = <<>>
    /\ UNCHANGED <<vault, files, vault_location, vault_open, vault_items, seen,
                   poisoned, origin, result,
                   zb, thread, lock, tasks>>

Next ==
    \/ \E o \in WriteOutcomes, n \in AesNonces : AddVaultItem(o, n)
    \/ \E id \in ItemIds, o \in WriteOutcomes, n \in AesNonces :
          DeleteVaultItem(id, o, n)
    \/ \E id \in ItemIds, k \in EditIds, o \in WriteOutcomes, n \in AesNonces :
          SaveSelectedItem(id, k, o, n)
    \/ \E p \in Paths : OpenUnlockVault(p)
    \/ \E p \in Paths \cup {NoPath}, pw \in Passwords, io \in IoOutcomes :
          UnlockVault(p, pw, io)
    \/ \E p \in Paths, pw \in Passwords, s \in Salts, o \in WriteOutcomes,
          n \in AesNonces : CreateVaultFile(p, pw, s, o, n)
    \/ CloseRequested
    \/ EventLoopReturns

Spec == Init /\ [][Next]_vars

\* ---- the picker names another file ----

\* The session with a second file that the picker and unlock can name.  What
\* is looked at is where the writes go, so here the file system does not
\* fail and One passphrase creates.
OkWrite == [kind |-> "ok", n |-> 0]

NextPick ==
    \/ \E n \in AesNonces : AddVaultItem(OkWrite, n)
    \/ \E id \in ItemIds, n \in AesNonces : DeleteVaultItem(id, OkWrite, n)
    \/ \E id \in ItemIds, k \in EditIds, n \in AesNonces :
          SaveSelectedItem(id, k, OkWrite, n)
    \/ \E p \in AllPaths : OpenUnlockVault(p)
    \/ \E p \in AllPaths \cup {NoPath}, pw \in Passwords :
          UnlockVault(p, pw, "ok")
    \/ \E p \in Paths, s \in Salts, n \in AesNonces :
          CreateVaultFile(p, 1, s, OkWrite, n)
    \/ CloseRequested
    \/ EventLoopReturns

SpecPick == Init /\ [][NextPick]_vars

\* ---- one vault, one file ----

\* The session as the window leads through it: the picker names the file
\* before the unlock, unlock_vault is given the path the window shows, and
\* while a vault is held the picker is not used.
NextSession ==
    \/ \E o \in WriteOutcomes, n \in AesNonces : AddVaultItem(o, n)
    \/ \E id \in ItemIds, o \in WriteOutcomes, n \in AesNonces :
          DeleteVaultItem(id, o, n)
    \/ \E id \in ItemIds, k \in EditIds, o \in WriteOutcomes, n \in AesNonces :
          SaveSelectedItem(id, k, o, n)
    \/ \E p \in Paths : ~vault.some /\ OpenUnlockVault(p)
    \/ \E pw \in Passwords, io \in IoOutcomes :
          UnlockVault(vault_location, pw, io)
    \/ \E p \in Paths, pw \in Passwords, s \in Salts, o \in WriteOutcomes,
          n \in AesNonces : CreateVaultFile(p, pw, s, o, n)
    \/ CloseRequested
    \/ EventLoopReturns

SpecSession == Init /\ [][NextSession]_vars

\* ---- direct calls of utils/file.rs and utils/crypto.rs ----
\* The functions of utils are called one at a time on a file system that
\* holds files of any length, as the tests of file.rs and crypto.rs do.

\* files of every class of length: none, shorter than the salt, the salt
\* alone, less than a nonce after the salt, a nonce and less than a tag,
\* and a whole encryption
FileSamples ==
    {NoFile, ForeignFile}
      \cup {PartialFile(DeriveArgonKey(1, 1), n) :
               n \in {0, SaltLen - 1, SaltLen, SaltLen + NonceLen - 1,
                      SaltLen + NonceLen}}

\* the one path the direct calls work on, as the temporary file of a test
TestPath == 1

InitFile ==
    /\ vault = NoVault
    /\ files \in {f \in [AllPaths -> FileSamples] :
                    \A p \in AllPaths \ {TestPath} : f[p] = ForeignFile}
    /\ vault_location = NoPath
    /\ vault_open = FALSE
    /\ vault_items = <<>>
    /\ pc = "running"
    /\ residue = NoVault
    /\ op = NoOp
    /\ handed = <<>>
    /\ seen = {}
    /\ poisoned = FALSE
    /\ origin = NoPath
    /\ result = NoResult
    /\ zb = NoZeroByte
    /\ thread = NoThread
    /\ lock = "free"
    /\ tasks = {}

\* derive_argon_key(pw, None), then write_encrypted_file(bytes, path, key)
CallWrite(path, bytes, pw, rng, outcome, nonce) ==
    /\ pc = "running"
    /\ \E key \in {DeriveArgonKeyOpt(pw, [some |-> FALSE, v |-> 0], rng)} :
       \E w \in {WriteEncryptedFile(files[path], bytes, key, nonce, outcome)} :
          /\ files' = [files EXCEPT ![path] = w.file]
          /\ handed' = bytes
          /\ result' = [ret |-> w.ret, key |-> NoKey, bytes |-> <<>>]
          /\ op' = [name |-> "write_encrypted_file", ret |-> w.ret,
                    write |-> IF w.ret = "ok" THEN "ok" ELSE "fail"]
    /\ UNCHANGED <<vault, vault_location, vault_open, vault_items, pc, residue,
                   seen, poisoned, origin,
                   zb, thread, lock, tasks>>

\* derive_file_key(path, password)
CallDerive(path, pw) ==
    /\ pc = "running"
    /\ \E dk \in {DeriveFileKey(files[path], pw)} :
          /\ result' = [ret |-> IF dk.ok THEN "ok" ELSE "err", key |-> dk.key,
                        bytes |-> <<>>]
          /\ op' = [name |-> "derive_file_key",
                    ret |-> IF dk.ok THEN "ok" ELSE "err", write |-> "none"]
    /\ handed' = <<>>
    /\ UNCHANGED <<vault, files, vault_location, vault_open, vault_items, pc,
                   residue, seen, poisoned, origin,
                   zb, thread, lock, tasks>>

\* read_encrypted_file(path, key) with the key of pw and salt
CallRead(path, pw, salt) ==
    /\ pc = "running"
    /\ \E rd \in {ReadEncryptedFile(files[path], DeriveArgonKey(pw, salt))} :
          /\ result' = [ret |-> rd.ret, key |-> NoKey, bytes |-> rd.pt]
          /\ op' = [name |-> "read_encrypted_file", ret |-> rd.ret,
                    write |-> "none"]
          /\ pc' = IF rd.ret = "panic" THEN "panicked" ELSE pc
    /\ handed' = <<>>
    /\ UNCHANGED <<vault, files, vault_location, vault_open, vault_items,
                   residue, seen, poisoned, origin,
                   zb, thread, lock, tasks>>

\* aes_gcm_encrypt(bytes, key), then aes_gcm_decrypt of the blob with key
CallEncryptDecrypt(bytes, pw, salt, nonce) ==
    /\ pc = "running"
    /\ \E key \in {DeriveArgonKey(pw, salt)} :
       \E d \in {AesGcmDecrypt(AesGcmEncrypt(bytes, key, nonce), key)} :
          /\ result' = [ret |-> d.ret, key |-> NoKey, bytes |-> d.pt]
          /\ op' = [name |-> "aes_gcm_decrypt", ret |-> d.ret, write |-> "none"]
          /\ pc' = IF d.ret = "panic" THEN "panicked" ELSE pc
    /\ handed' = bytes
    /\ UNCHANGED <<vault, files, vault_location, vault_open, vault_items,
                   residue, seen, poisoned, origin,
                   zb, thread, lock, tasks>>

\* derive_argon_key(pw, Some(salt)) twice; the random generator stands at
\* rng1 and at rng2.  The second key's bytes are kept beside the first key.
CallDeriveTwice(pw, salt, rng1, rng2) ==
    /\ pc = "running"
    /\ \E k1 \in {DeriveArgonKeyOpt(pw, SomeSalt(salt), rng1)} :
       \E k2 \in {DeriveArgonKeyOpt(pw, SomeSalt(salt), rng2)} :
          result' = [ret |-> IF k1.salt = k2.salt THEN "ok" ELSE "differ",
                     key |-> k1, bytes |-> k2.bytes]
    /\ op' = [name |-> "derive_argon_key", ret |-> "ok", write |-> "none"]
    /\ handed' = <<>>
    /\ UNCHANGED <<vault, files, vault_location, vault_open, vault_items, pc,
                   residue, seen, poisoned, origin,
                   zb, thread, lock, tasks>>

NextFile ==
    \/ \E b \in Plaintexts, pw \in Passwords, r \in Salts,
          o \in WriteOutcomes, n \in AesNonces :
          CallWrite(TestPath, b, pw, r, o, n)
    \/ \E pw \in Passwords : CallDerive(TestPath, pw)
    \/ \E pw \in Passwords, s \in Salts : CallRead(TestPath, pw, s)
    \/ \E b \in Plaintexts, pw \in Passwords, s \in Salts, n \in AesNonces :
          CallEncryptDecrypt(b, pw, s, n)
    \/ \E pw \in Passwords, s \in Salts, r1 \in RngSalts, r2 \in RngSalts :
          CallDeriveTwice(pw, s, r1, r2)

SpecFile == InitFile /\ [][NextFile]_vars

\* ---- direct calls of utils/zerobyte.rs ----

TestBytes == {1, 2}

\* the ZeroBytes of up to MaxCap bytes of capacity, the spare capacity
\* holding anything
ZeroBytes ==
    UNION {[store : [1..c -> TestBytes \cup {0}], len : 0..c] : c \in 0..MaxCap}

InitZero ==
    /\ vault = NoVault
    /\ files = [p \in AllPaths |-> NoFile]
    /\ vault_location = NoPath
    /\ vault_open = FALSE
    /\ vault_items = <<>>
    /\ pc = "running"
    /\ residue = NoVault
    /\ op = NoOp
    /\ handed = <<>>
    /\ seen = {}
    /\ poisoned = FALSE
    /\ origin = NoPath
    /\ result = NoResult
    /\ zb \in {z \in ZeroBytes : \A i \in 1..z.len : z.store[i] \in TestBytes}
    /\ thread = NoThread
    /\ lock = "free"
    /\ tasks = {}

ZbFrame ==
    UNCHANGED <<vault, files, vault_location, vault_open, vault_items, pc,
                residue, handed, seen, poisoned, origin, result, thread, lock,
                tasks>>

CallTruncate(len) ==
    /\ zb' = ZbTruncate(zb, len)
    /\ op' = [name |-> "truncate", ret |-> "unit", write |-> "none"]
    /\ ZbFrame

CallClear ==
    /\ zb' = ZbClear(zb)
    /\ op' = [name |-> "clear", ret |-> "unit", write |-> "none"]
    /\ ZbFrame

CallResize(new_len, value) ==
    /\ zb' = ZbResize(zb, new_len, value)
    /\ op' = [name |-> "resize", ret |-> "unit", write |-> "none"]
    /\ ZbFrame

NextZero ==
    \/ \E n \in 0..MaxCap : CallTruncate(n)
    \/ CallClear
    \/ \E n \in 0..MaxCap, v \in TestBytes : CallResize(n, v)

SpecZero == InitZero /\ [][NextZero]_vars

\* ---- a poisoned lock ----

\* The Mutex of GLOBAL_VAULT becomes poisoned when a thread panics while it
\* holds the guard and the process goes on.  The guard is held over
\* cipher.encrypt(..).unwrap() (crypto.rs:59, from save_vault_state) and over
\* the setters of the window (load_selected_item, update_vault_items); how
\* the panic is survived is outside the code at hand, so the poisoning is a
\* step of the environment, and it is only part of SpecPoison.
PoisonLock ==
    /\ pc = "running"
    /\ ~poisoned
    /\ poisoned' = TRUE
    /\ op' = [name |-> "lock_poisoned", ret |-> "none", write |-> "none"]
    /\ handed' = <<>>
    /\ UNCHANGED <<vault, files, vault_location, vault_open, vault_items, pc,
                   residue, seen, origin, result,
                   zb, thread, lock, tasks>>

NextPoison == Next \/ PoisonLock

SpecPoison == Init /\ [][NextPoison]_vars

\* ---- the handlers step by step ----

\* The callbacks of MainWindow run on the thread of the Slint event loop,
\* one at a time and each to its end; create_vault_file hands its write to
\* the blocking pool and the event loop goes on while the write is pending.
\* Here every handler is taken stage by stage: each stage but the file
\* reads of unlock_vault first takes the mutex of GLOBAL_VAULT and gives it
\* back at its end.  The file system does not fail, and the picker is used
\* while no vault is held.

\* the stages of a handler, in the order of its code
Prog(name) ==
    CASE name = "add_vault_item" -> <<"change", "refresh", "save">>
      [] name = "delete_vault_item" -> <<"change", "refresh", "save">>
      [] name = "save_selected_item" -> <<"change", "save", "load", "refresh">>
      [] name = "unlock_vault" -> <<"read", "store", "refresh">>

Stage(t) == Prog(t.op)[t.i]

\* the event loop takes the next event when the callback before it returned
EventLoopReentrant == TRUE

EventLoopIdle == thread.op = "none"

\* the guard of a stage is a local of a block or of a function that ends
\* with the stage: the mutex is free after it
GuardKept(stage) == IF stage = "change" THEN "ui" ELSE "free"

GuardAfter(stage) == "free"

\* the thread after the stage it is in: at the lock() of the next stage, or
\* back in the event loop
Advance(t) ==
    IF t.i + 1 > Len(Prog(t.op)) THEN NoThread
    ELSE [t EXCEPT !.i = t.i + 1, !.at = "acquire"]

\* the stage of thread t ends: the guard goes, the handler goes on or returns
EndStage(t) ==
    /\ lock' = GuardAfter(Stage(t))
    /\ thread' = Advance(t)
    /\ op' = IF Advance(t) = NoThread
             THEN [name |-> t.op, ret |-> t.ret, write |-> t.write]
             ELSE op

\* the event loop calls a callback
Dispatch(name, a, b) ==
    /\ pc = "running"
    /\ EventLoopIdle
    /\ name = "add_vault_item" => CanAdd(vault)
    /\ name = "delete_vault_item" => a >= 0
    /\ name = "unlock_vault" => a = vault_location
    /\ thread' = [op |-> name, i |-> 1,
                  at |-> IF name = "unlock_vault" THEN "body" ELSE "acquire",
                  a |-> a, b |-> b, u |-> NoVault,
                  ret |-> IF name = "save_selected_item" THEN "unit" ELSE "ok",
                  write |-> "none"]
    /\ UNCHANGED <<vault, files, vault_location, vault_open, vault_items, pc,
                   residue, op, handed, seen, poisoned, origin, result, zb,
                   lock, tasks>>

\* GLOBAL_VAULT.lock(): returns when the mutex is free
Acquire ==
    /\ pc = "running"
    /\ thread.at = "acquire"
    /\ lock = "free"
    /\ lock' = "ui"
    /\ thread' = [thread EXCEPT !.at = "body"]
    /\ UNCHANGED <<vault, files, vault_location, vault_open, vault_items, pc,
                   residue, op, handed, seen, poisoned, origin, result, zb,
                   tasks>>

\* the change of add_vault_item, delete_vault_item and save_selected_item
\* under the guard
ChangeOf(t, v) ==
    CASE t.op = "add_vault_item" -> PushItem(v)
      [] t.op = "delete_vault_item" -> RemoveItem(v, t.a)
      [] t.op = "save_selected_item" -> ReplaceFields(v, EditInput(t.a, t.b))

BodyChange ==
    /\ pc = "running"
    /\ thread.at = "body" /\ Stage(thread) = "change"
    /\ vault' = ChangeOf(thread, vault)
    /\ seen' = IF thread.op = "add_vault_item" /\ vault.some
               THEN seen \cup {vault.nonce} ELSE seen
    /\ EndStage(thread)
    /\ UNCHANGED <<files, vault_location, vault_open, vault_items, pc, residue,
                   handed, poisoned, origin, result, zb, tasks>>

\* update_vault_items (add_vault_item calls it twice in a row)
BodyRefresh ==
    /\ pc = "running"
    /\ thread.at = "body" /\ Stage(thread) = "refresh"
    /\ vault_items' = UpdateVaultItems(vault, vault_items)
    /\ EndStage(thread)
    /\ UNCHANGED <<vault, files, vault_location, vault_open, pc, residue,
                   handed, seen, poisoned, origin, result, zb, tasks>>

\* load_selected_item: reads the vault, sets selected-vault-item
BodyLoad ==
    /\ pc = "running"
    /\ thread.at = "body" /\ Stage(thread) = "load"
    /\ EndStage(thread)
    /\ UNCHANGED <<vault, files, vault_location, vault_open, vault_items, pc,
                   residue, handed, seen, poisoned, origin, result, zb, tasks>>

\* save_vault_state: encode and write under the guard
BodySave(outcome, nonce) ==
    /\ pc = "running"
    /\ thread.at = "body" /\ Stage(thread) = "save"
    /\ \E sv \in {SaveVaultState(vault, outcome, nonce)} :
          /\ files' = sv.files
          /\ handed' = sv.handed
          /\ EndStage([thread EXCEPT !.write = sv.write])
    /\ UNCHANGED <<vault, vault_location, vault_open, vault_items, pc, residue,
                   seen, poisoned, origin, result, zb, tasks>>

\* unlock_vault up to the decode: derive_file_key, read_encrypted_file,
\* decode_from_slice, none of them under the mutex
BodyRead ==
    /\ pc = "running"
    /\ thread.at = "body" /\ Stage(thread) = "read"
    /\ \E u \in {UnlockOutcome(FileAt(thread.a), thread.b, "ok")} :
          /\ thread' = CASE u.ret = "ok" ->
                              [thread EXCEPT !.i = 2, !.at = "acquire",
                                             !.u = u.vault]
                         [] u.ret = "err_read" ->
                              [thread EXCEPT !.i = 3, !.at = "acquire",
                                             !.ret = "err_read"]
                         [] OTHER -> NoThread
          /\ op' = IF u.ret \in {"ok", "err_read"} THEN op
                   ELSE [name |-> "unlock_vault", ret |-> u.ret,
                         write |-> "none"]
          /\ pc' = IF u.ret = "panic" THEN "panicked" ELSE pc
          /\ residue' = IF u.ret = "panic" THEN vault ELSE residue
    /\ UNCHANGED <<vault, files, vault_location, vault_open, vault_items,
                   handed, seen, poisoned, origin, result, zb, lock, tasks>>

\* unlock_vault, lines 301-307: the vault with its key goes to GLOBAL_VAULT
BodyStore ==
    /\ pc = "running"
    /\ thread.at = "body" /\ Stage(thread) = "store"
    /\ vault' = thread.u
    /\ vault_open' = VaultOpenAfterUnlock("ok", vault_open)
    /\ seen' = ItemIdsOf(thread.u.items)
    /\ origin' = thread.a
    /\ EndStage(thread)
    /\ UNCHANGED <<files, vault_location, vault_items, pc, residue, handed,
                   poisoned, result, zb, tasks>>

\* create_vault_file up to spawn_blocking: the encoded Vault::new and the
\* key travel with the task
CreateStart(path, pw, salt) ==
    /\ pc = "running"
    /\ EventLoopIdle
    /\ Cardinality(tasks) < MaxTasks
    /\ tasks' = tasks \cup {[path |-> path, key |-> DeriveArgonKey(pw, salt),
                             encoded |-> Encode(VaultNew)]}
    /\ UNCHANGED <<vault, files, vault_location, vault_open, vault_items, pc,
                   residue, op, handed, seen, poisoned, origin, result, zb,
                   thread, lock>>

\* the task on the blocking pool: write_encrypted_file, no mutex taken
CreateWrite(task, nonce) ==
    /\ pc = "running"
    /\ task \in tasks
    /\ \E w \in {WriteEncryptedFile(files[task.path], task.encoded, task.key,
                                    nonce, OkWrite)} :
          files' = [files EXCEPT ![task.path] = w.file]
    /\ tasks' = tasks \ {task}
    /\ UNCHANGED <<vault, vault_location, vault_open, vault_items, pc, residue,
                   op, handed, seen, poisoned, origin, result, zb, thread,
                   lock>>

TaskSet ==
    {[path |-> p, key |-> DeriveArgonKey(pw, s), encoded |-> Encode(VaultNew)] :
        p \in Paths, pw \in Passwords, s \in Salts}

NextSteps ==
    \/ Dispatch("add_vault_item", 0, 0)
    \/ \E id \in ItemIds : Dispatch("delete_vault_item", id, 0)
    \/ \E id \in ItemIds, k \in EditIds : Dispatch("save_selected_item", id, k)
    \/ \E p \in Paths, pw \in Passwords : Dispatch("unlock_vault", p, pw)
    \/ Acquire
    \/ BodyChange
    \/ BodyRefresh
    \/ BodyLoad
    \/ \E n \in AesNonces : BodySave(OkWrite, n)
    \/ BodyRead
    \/ BodyStore
    \/ \E p \in Paths : EventLoopIdle /\ ~vault.some /\ OpenUnlockVault(p)
    \/ \E p \in Paths, pw \in Passwords, s \in Salts : CreateStart(p, pw, s)
    \/ \E t \in TaskSet, n \in AesNonces : CreateWrite(t, n)
    \/ EventLoopIdle /\ CloseRequested
    \/ EventLoopIdle /\ EventLoopReturns

SpecSteps == Init /\ [][NextSteps]_vars

\* ---- the steps of the handlers, as actions ----

AddStep == \E o \in WriteOutcomes, n \in AesNonces : AddVaultItem(o, n)

DeleteStep(id) == \E o \in WriteOutcomes, n \in AesNonces : DeleteVaultItem(id, o, n)

SaveStep(id, k) ==
    \E o \in WriteOutcomes, n \in AesNonces : SaveSelectedItem(id, k, o, n)

CreateStep(p, pw, s) ==
    \E o \in WriteOutcomes, n \in AesNonces : CreateVaultFile(p, pw, s, o, n)

Mutations == {"add_vault_item", "delete_vault_item", "save_selected_item"}

\* a step of one of the three handlers that change the vault
MutationStep ==
    \/ op'.name = "add_vault_item" /\ AddStep
    \/ op'.name = "delete_vault_item" /\ \E id \in ItemIds : DeleteStep(id)
    \/ op'.name = "save_selected_item"
          /\ \E id \in ItemIds, k \in EditIds : SaveStep(id, k)

\* the vault is the one Vault::new builds: one blank item with id 0, nonce 1
IsPlaceholderVault(v) ==
    /\ v.some
    /\ v.nonce = 1
    /\ Len(v.items) = 1
    /\ v.items[1].id = 0
    /\ v.items[1].name = NewItemName
    /\ \A f \in {"username", "password", "url", "notes"} : v.items[1][f] = <<>>

\* every byte of the image is zero and no key is left in it
AllZero(image) ==
    /\ image.nonce = 0
    /\ ~image.key.some /\ image.key.bytes = <<0, 0>> /\ image.key.salt = 0
    /\ \A i \in DOMAIN image.items :
          /\ image.items[i].id = 0
          /\ \A f \in {"name", "username", "password", "url", "notes"} :
                \A j \in DOMAIN image.items[i][f] : image.items[i][f][j] = 0

\* ---- C1 ----
\* C1: in the held vault every add_vault_item assigns an id that is greater
\* than every id the vault had when it was loaded and than every id assigned
\* since, so the ids of successive adds increase strictly, are pairwise
\* distinct, and no id that delete_vault_item removed comes back.
C1_IdsStrictlyIncrease ==
    [][(op'.name = "add_vault_item" /\ vault.some /\ AddStep) =>
          LET id == vault'.items[Len(vault'.items)].id
          IN /\ Len(vault'.items) = Len(vault.items) + 1
             /\ id \notin seen
             /\ id \notin ItemIdsOf(vault.items)
             /\ \A x \in seen : id > x]_vars

\* two adds after the placeholder, with a delete of id 1 before the last one
C1_Witness ==
    /\ op.name = "add_vault_item"
    /\ vault.some
    /\ seen = {0, 1, 2}
    /\ 1 \notin ItemIdsOf(vault.items)
    /\ 2 \in ItemIdsOf(vault.items)

\* ---- C2 ----
\* C2: whenever a vault is held, its nonce is strictly greater than the id of
\* every item in it and than every id it had when loaded or assigned since.
C2_NonceAboveIds ==
    vault.some =>
        /\ \A i \in DOMAIN vault.items : vault.items[i].id < vault.nonce
        /\ \A x \in seen : x < vault.nonce

\* a held vault after adds and deletes: every item is gone, three ids were used
C2_Witness ==
    /\ vault.some
    /\ vault.items = <<>>
    /\ seen = {0, 1, 2}
    /\ op.name = "delete_vault_item"

\* ---- C3 ----
\* C3: an unlock_vault that starts with no vault held and does not succeed
\* leaves GLOBAL_VAULT empty, stores no key and does not set vault-open.
C3_FailedUnlockStaysLocked ==
    [][\A loc \in Paths \cup {NoPath}, pw \in Passwords, io \in IoOutcomes :
          (op'.name = "unlock_vault" /\ op'.ret # "ok" /\ ~vault.some
             /\ UnlockVault(loc, pw, io)) =>
              /\ ~vault'.some
              /\ ~vault'.key.some
              /\ ~vault_open']_vars

\* a wrong passphrase on a file that exists, with nothing held before or after
C3_Witness ==
    /\ op.name = "unlock_vault"
    /\ op.ret = "err_read"
    /\ ~vault.some
    /\ ~vault_open
    /\ \E p \in Paths : files[p].exists /\ DecodeOk(files[p].blob.pt)

\* ---- C4 ----
\* C4 as claimed: after a create that wrote the file, the global vault holds
\* the new vault with its key.
C4_CreateHoldsVault ==
    (op.name = "create_vault_file" /\ op.ret = "ok") =>
        (IsPlaceholderVault(vault) /\ vault.key.some)

\* C4 as amended: a create that wrote the file leaves GLOBAL_VAULT and
\* vault-open as they were; the file then holds, after the salt of the fresh
\* key, the encryption under that key of the encoding of a new vault without
\* a key.
C4_CreateWritesFileOnly ==
    [][\A p \in Paths, pw \in Passwords, s \in Salts :
          (op'.name = "create_vault_file" /\ op'.ret = "ok"
             /\ CreateStep(p, pw, s)) =>
              /\ vault' = vault
              /\ vault_open' = vault_open
              /\ files'[p].exists
              /\ files'[p].salt = s
              /\ \E rd \in {ReadEncryptedFile(files'[p], DeriveArgonKey(pw, s))} :
                    /\ rd.ret = "ok"
                    /\ \E d \in {Decode(rd.pt)} :
                          /\ d.ok
                          /\ IsPlaceholderVault(d.vault)
                          /\ ~d.vault.key.some]_vars

\* a create has written the file and nothing is held
C4_Witness ==
    /\ op.name = "create_vault_file"
    /\ op.ret = "ok"
    /\ ~vault.some
    /\ \E p \in Paths : files[p].exists /\ DecodeOk(files[p].blob.pt)

\* ---- C5 ----

\* f is whole and is what create_vault_file writes for passphrase pw: the salt,
\* then the encryption of a new vault under the key derived from pw and it
CreatedWith(f, pw) ==
    /\ f.exists
    /\ f.len = SaltLen + NonceLen + Len(f.blob.pt) + TagLen
    /\ f.blob.len = f.len - SaltLen
    /\ f.blob.key = KDF(pw, f.salt)
    /\ \E d \in {Decode(f.blob.pt)} :
          d.ok /\ IsPlaceholderVault(d.vault) /\ ~d.vault.key.some

\* C5: after create_vault_file has written a file for passphrase P, unlocking
\* that file with P succeeds and holds exactly the placeholder item, id 0,
\* with nonce 1 and a key; unlocking it with another passphrase fails and
\* changes neither GLOBAL_VAULT nor vault-open.
C5_CreateThenUnlock ==
    [][\A loc \in Paths, P \in Passwords, Q \in Passwords :
          (/\ op.name = "create_vault_file" /\ op.ret = "ok"
           /\ op'.name = "unlock_vault"
           /\ CreatedWith(files[loc], P)
           /\ UnlockVault(loc, Q, "ok")) =>
              IF Q = P
              THEN /\ op'.ret = "ok"
                   /\ IsPlaceholderVault(vault')
                   /\ vault'.key.some
                   /\ vault_open'
              ELSE /\ op'.ret # "ok"
                   /\ vault' = vault
                   /\ vault_open' = vault_open]_vars

\* an unlock has stored the placeholder vault of a created file under its key
C5_Witness ==
    /\ op.name = "unlock_vault"
    /\ op.ret = "ok"
    /\ IsPlaceholderVault(vault)
    /\ vault_open
    /\ \E p \in Paths, P \in Passwords :
          CreatedWith(files[p], P) /\ vault.key = DeriveArgonKey(P, files[p].salt)

\* ---- C6 ----
\* C6: when the write of the vault file fails in add_vault_item,
\* delete_vault_item or save_selected_item, the handler returns an error; so
\* a handler that does not return an error has written the held vault.
C6_WriteFailureReturned ==
    (op.name \in Mutations /\ vault.some) =>
        /\ op.write = "fail" => op.ret = "err"
        /\ op.ret # "err" => op.write = "ok"

\* ---- C7 ----
\* C7: when the write fails in add_vault_item, delete_vault_item or
\* save_selected_item, the held vault has the whole change: the blank item
\* appended with the old nonce as id and the nonce one higher; or every item
\* with the id gone and the rest in order; or all five fields of the item
\* replaced by the input; nothing else differs.
C7_FailedWriteKeepsWholeChange ==
    [][(op'.name \in Mutations /\ op'.write = "fail" /\ vault.some) =>
          /\ (op'.name = "add_vault_item" /\ AddStep) =>
                /\ vault'.items = Append(vault.items,
                       [id |-> vault.nonce, name |-> NewItemName,
                        username |-> <<>>, password |-> <<>>, url |-> <<>>,
                        notes |-> <<>>])
                /\ vault'.nonce = vault.nonce + 1
                /\ vault'.key = vault.key
          /\ \A id \in ItemIds :
                (op'.name = "delete_vault_item" /\ DeleteStep(id)) =>
                   /\ LET Kept(it) == it.id # id
                      IN vault'.items = SelectSeq(vault.items, Kept)
                   /\ vault'.nonce = vault.nonce
                   /\ vault'.key = vault.key
          /\ \A id \in ItemIds, k \in EditIds :
                (op'.name = "save_selected_item" /\ SaveStep(id, k)) =>
                   /\ Len(vault'.items) = Len(vault.items)
                   /\ \A i \in DOMAIN vault.items :
                         vault'.items[i] =
                            IF vault.items[i].id = id
                            THEN EditInput(id, k)
                            ELSE vault.items[i]
                   /\ vault'.nonce = vault.nonce
                   /\ vault'.key = vault.key]_vars

\* the write of save_selected_item failed and the item has the edited fields
C7_Witness ==
    /\ op.name = "save_selected_item"
    /\ op.write = "fail"
    /\ vault.some
    /\ \E i \in DOMAIN vault.items, k \in EditIds :
          vault.items[i] = EditInput(vault.items[i].id, k)

\* ---- C8 ----
\* C8: the plaintext handed to write_encrypted_file by the save path and by
\* create_vault_file is the encoding of a vault whose key field is None.
C8_PlaintextHasNoKey ==
    op.write # "none" =>
        \E d \in {Decode(handed)} : d.ok /\ d.vault.some /\ d.vault.key = NoKey

\* a save of the held vault, which has a key, has handed over its plaintext
C8_Witness ==
    /\ op.name = "save_selected_item"
    /\ op.write = "ok"
    /\ vault.some /\ vault.key.some
    /\ handed # <<>>

\* ---- C9 ----
\* C9: whenever GLOBAL_VAULT holds a vault, the key field of that vault is
\* Some, also after the save path has stripped the key from its copy.
C9_HeldVaultHasKey ==
    vault.some => (vault.key.some /\ vault.key # NoKey)

\* a vault is held after a mutation saved it without its key
C9_Witness ==
    /\ vault.some
    /\ op.name = "add_vault_item"
    /\ op.write = "ok"
    /\ \E d \in {Decode(handed)} : d.ok /\ ~d.vault.key.some

\* ---- C10 ----
\* C10: once the program has exited, by the close request or by the return
\* of the window's event loop, GLOBAL_VAULT is empty and the vault it held
\* has been zeroized.
C10_ExitZeroizes ==
    pc = "exited" => (~vault.some /\ AllZero(residue))

\* ---- C11 ----

\* the operations that take the lock of GLOBAL_VAULT on every path
LockOps ==
    {"add_vault_item", "delete_vault_item", "save_selected_item",
     "close_requested"}

\* C11: an operation that found the lock of GLOBAL_VAULT poisoned has
\* returned an error to its caller: it has neither gone on without a word
\* nor panicked.
C11_PoisonReported ==
    (/\ poisoned
     /\ \/ op.name \in LockOps
        \/ op.name = "unlock_vault" /\ op.ret = "panic_lock") =>
        (op.ret = "err" /\ pc = "running")

\* ---- C12 ----
\* C12: a mutation that writes changes no file but the one the held vault
\* was unlocked from, whatever the picker has named since and whatever
\* unlock has failed since.
C12_WritesGoToOrigin ==
    [][(op'.name \in Mutations /\ op'.write # "none" /\ files' # files) =>
          \A p \in AllPaths : files'[p] # files[p] => p = origin]_vars

\* ---- C13 ----
\* C13: after write_encrypted_file has written plaintext B to a path under
\* the key derived from pw1, derive_file_key(path, pw1) gives that key, salt
\* and bytes, read_encrypted_file with it gives exactly B, and
\* read_encrypted_file with the key derive_file_key gives for any other
\* passphrase gives an error.
C13_FileRoundTrip ==
    [][\A p \in Paths, B \in Plaintexts, pw1 \in Passwords, r \in Salts,
          n \in AesNonces :
          (op'.name = "write_encrypted_file" /\ op'.ret = "ok"
             /\ CallWrite(p, B, pw1, r, OkWrite, n)) =>
              /\ \E dk \in {DeriveFileKey(files'[p], pw1)} :
                    /\ dk.ok
                    /\ dk.key.salt = r
                    /\ dk.key.bytes = KDF(pw1, r)
                    /\ ReadEncryptedFile(files'[p], dk.key) =
                          [ret |-> "ok", pt |-> B]
              /\ \A pw2 \in Passwords \ {pw1} :
                    \E dk \in {DeriveFileKey(files'[p], pw2)} :
                       /\ dk.ok
                       /\ ReadEncryptedFile(files'[p], dk.key).ret = "err"]_vars

\* a plaintext that is not empty has been written and the file is whole
C13_Witness ==
    /\ op.name = "write_encrypted_file"
    /\ op.ret = "ok"
    /\ Len(handed) = MaxPlain
    /\ \E p \in Paths : files[p].exists /\ files[p].blob.pt = handed

\* ---- C14 ----
\* C14: a write_encrypted_file that returns Ok leaves a file whose first 16
\* bytes are key.salt, whose next 12 bytes are the nonce of that encryption
\* and whose rest is the ciphertext with its tag, so a file longer than 16
\* bytes.
C14_FileLayout ==
    [][\A p \in Paths, B \in Plaintexts, pw \in Passwords, r \in Salts,
          n \in AesNonces :
          (op'.name = "write_encrypted_file" /\ op'.ret = "ok"
             /\ CallWrite(p, B, pw, r, OkWrite, n)) =>
              \E f \in {files'[p]} :
                 /\ f.exists
                 /\ f.salt = DeriveArgonKey(pw, r).salt
                 /\ f.blob.nonce = n
                 /\ f.blob.key = KDF(pw, r) /\ f.blob.pt = B
                 /\ f.blob.len = NonceLen + Len(B) + TagLen
                 /\ f.len = SaltLen + NonceLen + Len(B) + TagLen
                 /\ f.len > SaltLen]_vars

\* the empty plaintext has been written: salt, nonce and tag only
C14_Witness ==
    /\ op.name = "write_encrypted_file"
    /\ op.ret = "ok"
    /\ handed = <<>>
    /\ \E p \in Paths : files[p].len = SaltLen + NonceLen + TagLen

\* ---- C15 ----
\* C15: aes_gcm_decrypt of the blob aes_gcm_encrypt made of B under K gives
\* back exactly B under K, also for the empty B.
C15_AeadRoundTrip ==
    op.name = "aes_gcm_decrypt" => (result.ret = "ok" /\ result.bytes = handed)

\* the round trip of the empty plaintext has run
C15_Witness ==
    /\ op.name = "aes_gcm_decrypt"
    /\ handed = <<>>
    /\ result.ret = "ok"

\* ---- C16 ----
\* C16: on a file of fewer than 16 bytes derive_file_key and
\* read_encrypted_file return an error, give no key and no plaintext, and do
\* not panic.
C16_ShortFileIsError ==
    [][\A p \in Paths :
          (files[p].exists /\ files[p].len < SaltLen) =>
             /\ \A pw \in Passwords :
                   (op'.name = "derive_file_key" /\ CallDerive(p, pw)) =>
                      (result'.ret = "err" /\ result'.key = NoKey
                         /\ pc' = "running")
             /\ \A pw \in Passwords, s \in Salts :
                   (op'.name = "read_encrypted_file" /\ CallRead(p, pw, s)) =>
                      (result'.ret = "err" /\ result'.bytes = <<>>
                         /\ pc' = "running")]_vars

\* read_encrypted_file has run on a file of 15 bytes
C16_Witness ==
    /\ op.name = "read_encrypted_file"
    /\ result.ret = "err"
    /\ \E p \in Paths : files[p].exists /\ files[p].len = SaltLen - 1

\* ---- C17 ----
\* C17: reading or unlocking a file, whatever its length and content, ends
\* in an error or in a plaintext and never in a panic.
C17_ReadNeverPanics ==
    op.name \in {"read_encrypted_file", "unlock_vault"} =>
        (op.ret # "panic" /\ pc # "panicked")

\* ---- C18 ----

\* f holds a whole encryption: salt, nonce, ciphertext and tag
WholeFile(f) ==
    /\ f.exists
    /\ f.len = SaltLen + NonceLen + Len(f.blob.pt) + TagLen
    /\ f.blob.len = f.len - SaltLen

\* C18: a step that changes a file leaves it whole: after
\* write_encrypted_file the file holds its previous content or the complete
\* new salt, nonce and ciphertext.
C18_WriteIsAtomic ==
    [][files' # files =>
          \A p \in AllPaths : files'[p] = files[p] \/ WholeFile(files'[p])]_vars

\* ---- C20 ----
\* C20: derive_argon_key(P, Some(S)) gives the same key bytes on every
\* call, whatever the random generator holds, gives S as the salt of the
\* key, and the bytes are those of P and S alone.
C20_KdfDeterministic ==
    [][\A P \in Passwords, S \in Salts, r1 \in RngSalts, r2 \in RngSalts :
          (op'.name = "derive_argon_key" /\ CallDeriveTwice(P, S, r1, r2)) =>
              /\ result'.ret = "ok"
              /\ result'.key.salt = S
              /\ result'.key.bytes = result'.bytes
              /\ result'.key.bytes = KDF(P, S)]_vars

\* the key has been derived twice from a passphrase and a salt
C20_Witness ==
    /\ op.name = "derive_argon_key"
    /\ result.key.some
    /\ result.key.bytes = result.bytes
    /\ result.key.salt \in Salts

\* ---- C21 ----
\* C21: clear, truncate to a shorter length and resize to a shorter length
\* leave every discarded byte of the store zero, set the length to the new
\* one (0 after clear) and keep the retained prefix; truncate to the same or
\* a longer length changes nothing; resize to a longer length keeps the
\* bytes and appends copies of the value.
C21_ZeroByteShrinkZeroizes ==
    [][/\ (op'.name = "clear" /\ CallClear) =>
             /\ zb'.len = 0
             /\ \A i \in 1..zb.len : zb'.store[i] = 0
       /\ \A n \in 0..MaxCap :
             (op'.name = "truncate" /\ CallTruncate(n)) =>
                IF n < zb.len
                THEN /\ zb'.len = n
                     /\ ZbData(zb') = SubSeq(ZbData(zb), 1, n)
                     /\ \A i \in (n + 1)..zb.len : zb'.store[i] = 0
                ELSE zb' = zb
       /\ \A n \in 0..MaxCap, v \in TestBytes :
             (op'.name = "resize" /\ CallResize(n, v)) =>
                IF n < zb.len
                THEN /\ zb'.len = n
                     /\ ZbData(zb') = SubSeq(ZbData(zb), 1, n)
                     /\ \A i \in (n + 1)..zb.len : zb'.store[i] = 0
                ELSE /\ zb'.len = n
                     /\ SubSeq(ZbData(zb'), 1, zb.len) = ZbData(zb)
                     /\ \A i \in (zb.len + 1)..n : zb'.store[i] = v]_vars

\* a truncate has cut a ZeroByte of MaxCap bytes down to one byte
C21_Witness ==
    /\ op.name = "truncate"
    /\ zb.len = 1
    /\ Len(zb.store) = MaxCap
    /\ zb.store[1] # 0
    /\ \A i \in 2..MaxCap : zb.store[i] = 0

\* ---- C22 ----
FailureClasses == {"auth", "io", "decode"}

\* C22: unlock_vault tells an authentication failure, an I/O failure and a
\* decode failure apart: whenever an unlock fails in one of the three ways,
\* no unlock of the same file that fails in another of the three ways tells
\* the same thing.
C22_UnlockFailuresDistinct ==
    [][\A loc \in Paths, pw \in Passwords, io \in IoOutcomes :
          (op'.name = "unlock_vault" /\ UnlockVault(loc, pw, io)) =>
             \E a \in {UnlockOutcome(files[loc], pw, io)} :
                \A pw2 \in Passwords, io2 \in IoOutcomes :
                   \E b \in {UnlockOutcome(files[loc], pw2, io2)} :
                      (/\ a.class \in FailureClasses
                       /\ b.class \in FailureClasses
                       /\ a.class # b.class) => a.ret # b.ret]_vars

\* ---- C23 ----
\* C23: when add_vault_item, delete_vault_item or save_selected_item has
\* returned with a vault held, write_encrypted_file has been called in it,
\* the bytes handed to it encode the vault as the change left it, and after
\* a write that worked the file at vault-location decrypts to these bytes.
C23_WriteFollowsChange ==
    [][(op'.name \in Mutations /\ vault.some /\ MutationStep) =>
          \E pt \in {Encode(VaultWithoutKey(vault'))} :
             /\ op'.write # "none"
             /\ handed' = pt
             /\ (op'.write = "ok") =>
                   \E rd \in {ReadEncryptedFile(files'[vault_location],
                                                vault'.key)} :
                      rd.ret = "ok" /\ rd.pt = pt]_vars

\* an edit of item 0 has been written: the file holds the edited vault
C23_Witness ==
    /\ op.name = "save_selected_item"
    /\ op.write = "ok"
    /\ vault.some
    /\ Len(vault.items) >= 1
    /\ vault.items[1] = EditInput(0, 1)
    /\ handed = Encode(VaultWithoutKey(vault))
    /\ vault_location \in Paths
    /\ ReadEncryptedFile(files[vault_location], vault.key).pt = handed

\* ---- C24 ----
\* the thread is in a mutation, past its change and before its write
InWindow(t) ==
    /\ t.op \in Mutations
    /\ \E j \in 1..Len(Prog(t.op)) :
          /\ Prog(t.op)[j] = "save"
          /\ 1 < t.i /\ t.i <= j

\* C24: from the change of a mutation to its own write every step either is
\* the next step of that mutation or leaves GLOBAL_VAULT, its mutex, the
\* list shown and the thread alone: no other operation starts, reads the
\* vault or changes it.
C24_OneOperationAtATime ==
    [][InWindow(thread) =>
          \/ /\ thread'.op = thread.op
             /\ thread'.a = thread.a /\ thread'.b = thread.b
             /\ \/ thread'.i = thread.i /\ thread.at = "acquire"
                      /\ thread'.at = "body" /\ vault' = vault
                \/ thread'.i = thread.i + 1 /\ thread.at = "body"
                      /\ (Stage(thread) # "change" => vault' = vault)
          \/ /\ Stage(thread) = "save" /\ thread.at = "body"
             /\ thread.i = Len(Prog(thread.op))
             /\ thread' = NoThread /\ vault' = vault
          \/ UNCHANGED <<thread, vault, vault_items, vault_open, lock, pc,
                         residue>>]_vars

\* an add has changed the vault and waits for the mutex to save, while a
\* write of create_vault_file is pending
C24_Witness ==
    /\ thread.op = "add_vault_item"
    /\ Stage(thread) = "save" /\ thread.at = "acquire"
    /\ vault.some /\ Len(vault.items) = 2
    /\ tasks # {}

\* ---- C25 ----
\* C25: the thread never calls lock() on the mutex of GLOBAL_VAULT while it
\* holds that mutex itself.
C25_NoSelfDeadlock == ~(thread.at = "acquire" /\ lock = "ui")

\* a delete has dropped its guard after the change and is about to lock
\* again in update_vault_items
C25_Witness ==
    /\ thread.op = "delete_vault_item"
    /\ Stage(thread) = "refresh" /\ thread.at = "acquire"
    /\ lock = "free"
    /\ vault.some

\* ---- C26 ----
\* C26: once every operation and every pending write has completed, the
\* file the held vault was unlocked from and is saved to decrypts under the
\* held key to the encoding of the vault in memory.
C26_FileHoldsLatestVault ==
    (/\ thread.op = "none" /\ tasks = {}
     /\ pc = "running"
     /\ vault.some /\ origin \in Paths /\ vault_location = origin) =>
        \E rd \in {ReadEncryptedFile(files[origin], vault.key)} :
           rd.ret = "ok" /\ rd.pt = Encode(VaultWithoutKey(vault))

\* ---- C27 ----
\* the file at origin follows the held vault: the last operation was the
\* unlock itself, or a mutation whose write went to that file and worked
Tracked ==
    \/ op.name = "unlock_vault" /\ op.ret = "ok"
    \/ op.name \in Mutations /\ op.write = "ok" /\ vault_location = origin

\* C27: when the window is closed after an unlock and successful adds,
\* deletes and updates saved to the unlocked file, the passphrase of the
\* held key unlocks that file again, to a vault with the nonce and the
\* items (ids, fields, order) the held vault had at the close.
C27_CloseThenUnlockRoundTrip ==
    [][(op'.name = "close_requested" /\ vault.some /\ origin \in Paths
          /\ Tracked /\ CloseRequested) =>
             \E pw \in Passwords :
                /\ DeriveArgonKey(pw, vault.key.salt) = vault.key
                /\ \E u \in {UnlockOutcome(files'[origin], pw, "ok")} :
                      /\ u.ret = "ok"
                      /\ u.vault.nonce = vault.nonce
                      /\ u.vault.items = vault.items
                      /\ u.vault.key = vault.key]_vars

\* closed after two adds, a delete and an edit: the file unlocks to two
\* items, one of them edited, and nonce 3
C27_Witness ==
    /\ op.name = "close_requested"
    /\ origin \in Paths
    /\ \E pw \in Passwords :
       \E u \in {UnlockOutcome(files[origin], pw, "ok")} :
          /\ u.ret = "ok"
          /\ u.vault.nonce = 3
          /\ Len(u.vault.items) = 2
          /\ \E i \in 1..2 : u.vault.items[i] = EditInput(u.vault.items[i].id, 1)

\* ---- C28 ----
\* the positions of the items with the id
Matches(items, id) == {i \in DOMAIN items : items[i].id = id}

\* C28: on a held vault, delete_vault_item(id) removes the one item with
\* the id and keeps the others in their order; save_selected_item replaces
\* name, username, password, url and notes of the one item with the id of
\* the input, keeps its id and its place and every other item;
\* add_vault_item appends one item and keeps the others; the nonce changes
\* on add only, the key never; with no item of the id, delete and
\* save_selected_item leave the vault as it is.
C28_MutationChangesOnlyTarget ==
    [][(op'.name \in Mutations /\ vault.some) =>
          /\ (op'.name = "add_vault_item" /\ AddStep) =>
                /\ vault'.some /\ vault'.key = vault.key
                /\ Len(vault'.items) = Len(vault.items) + 1
                /\ SubSeq(vault'.items, 1, Len(vault.items)) = vault.items
                /\ vault'.nonce # vault.nonce
          /\ \A id \in ItemIds :
                (op'.name = "delete_vault_item" /\ DeleteStep(id)) =>
                   /\ vault'.some /\ vault'.key = vault.key
                   /\ vault'.nonce = vault.nonce
                   /\ IF Matches(vault.items, id) = {}
                      THEN vault' = vault
                      ELSE /\ Cardinality(Matches(vault.items, id)) = 1
                           /\ Len(vault'.items) = Len(vault.items) - 1
                           /\ \E p \in Matches(vault.items, id) :
                                 vault'.items =
                                    SubSeq(vault.items, 1, p - 1) \o
                                    SubSeq(vault.items, p + 1, Len(vault.items))
          /\ \A id \in ItemIds, k \in EditIds :
                (op'.name = "save_selected_item" /\ SaveStep(id, k)) =>
                   /\ vault'.some /\ vault'.key = vault.key
                   /\ vault'.nonce = vault.nonce
                   /\ IF Matches(vault.items, id) = {}
                      THEN vault' = vault
                      ELSE /\ Cardinality(Matches(vault.items, id)) = 1
                           /\ Len(vault'.items) = Len(vault.items)
                           /\ \A i \in DOMAIN vault.items :
                                 IF vault.items[i].id = id
                                 THEN /\ vault'.items[i].id = id
                                      /\ \A f \in {"name", "username",
                                                   "password", "url", "notes"} :
                                            vault'.items[i][f] =
                                               FromSharedString(EditInput(id, k)[f])
                                 ELSE vault'.items[i] = vault.items[i]]_vars

\* the middle one of three items has been deleted: the first and the last
\* are left, in their order
C28_Witness ==
    /\ op.name = "delete_vault_item"
    /\ vault.some
    /\ vault.nonce = 3
    /\ Len(vault.items) = 2
    /\ vault.items[1].id = 0
    /\ vault.items[2].id = 2

====
